---- MODULE Spec2Model ----
\* Batch QR-code generator (main.go): generatorQRCode -> processQRCode ->
\* worker goroutines running work() over a buffered job channel.
\* Strings are sequences of one-character strings, so that strings.Split,
\* strings.TrimSpace and the path concatenation are computed, not assumed.
EXTENDS Integers, Sequences, FiniteSets, TLC

\* ---------------------------------------------------------------- bounds
\* Number of worker goroutines, runtime.NumCPU() of the host.
NumCPU == 2
\* Number of lines the UI passes in, summed over all invocations.
MaxLines == 2
\* Number of bound-callback invocations (each runs in its own goroutine).
MaxCalls == 2

\* ------------------------------------------------------ program constants
\* qrcode.WriteFile(valuePinCode, qrcode.Medium, 256, pingCode)
PixelSize == 256

Calls == 1..MaxCalls
Workers == 1..NumCPU

\* ---------------------------------------------------------------- strings
SP == " "
NL == "\n"
EmptyStr == << >>

\* unicode.IsSpace restricted to the characters the inputs use.
IsSpace(ch) == ch \in {" ", "\t", "\n", "\r"}

RECURSIVE Split(_, _)
\* strings.Split(s, sep) for a one-character separator.
Split(s, sep) ==
    IF \A k \in 1..Len(s) : s[k] # sep
    THEN << s >>
    ELSE LET k == CHOOSE x \in 1..Len(s) :
                      s[x] = sep /\ \A m \in 1..(x - 1) : s[m] # sep
         IN  << SubSeq(s, 1, k - 1) >> \o Split(SubSeq(s, k + 1, Len(s)), sep)

RECURSIVE TrimLeft(_)
TrimLeft(s) ==
    IF Len(s) > 0 /\ IsSpace(s[1]) THEN TrimLeft(Tail(s)) ELSE s

RECURSIVE TrimRight(_)
TrimRight(s) ==
    IF Len(s) > 0 /\ IsSpace(s[Len(s)])
    THEN TrimRight(SubSeq(s, 1, Len(s) - 1))
    ELSE s

\* strings.TrimSpace(s)
TrimSpace(s) == TrimRight(TrimLeft(s))

\* ----------------------------------------------------------------- inputs
\* Lines the UI user types: blank, whitespace only, one token, two tokens
\* (the same name as the one-token line, another payload), three tokens,
\* and another token followed by a trailing space.
LineSet ==
    { << >>,
      << " " >>,
      << "a" >>,
      << "a", " ", "1" >>,
      << "a", " ", "b", " ", "c" >>,
      << "b", " " >> }

RECURSIVE JoinLines(_)
JoinLines(ls) ==
    IF Len(ls) = 1 THEN ls[1] ELSE ls[1] \o << NL >> \o JoinLines(Tail(ls))

LineSeqs == UNION { [1..n -> LineSet] : n \in 1..MaxLines }

\* The pinCodeList texts: up to MaxLines lines joined by newlines
\* (the single blank line gives the empty text).
PinCodeLists == { JoinLines(ls) : ls \in LineSeqs }
\* Lines an invocation uses up of the MaxLines the UI passes in.
Cost(l) == IF Len(l) = 0 THEN 0 ELSE Cardinality({ k \in 1..Len(l) : l[k] = NL }) + 1
Folders == { EmptyStr, << "o", "u", "t" >>, << "q" >> }
FileExts == { EmptyStr, << ".", "p", "n", "g" >> }

\* ------------------------------------------------------------------ state
VARIABLES
    pc,             \* pc[c]: position of invocation c in generatorQRCode/processQRCode
    args,           \* args[c]: the three arguments of invocation c
    ret,            \* ret[c]: (result, err) returned by invocation c
    mu,             \* generator.Mutex: 0 when free, else the invocation holding it
    g,              \* generator fields pinCodeList, folder, fileExt
    fileContentArr, \* processQRCode local, per invocation
    jobChans,       \* processQRCode local: buffered channel contents
    closed,         \* whether jobChans is closed
    wg,             \* processQRCode local: WaitGroup counter
    errGenQRCode,   \* errLog.errGenQRCode of the run
    i,              \* loop variable of the spawn loop, then of the enqueue loop
    wpc,            \* wpc[c][w]: position of worker w of invocation c
    wjob,           \* job held by the worker
    wpath,          \* work() local pingCode
    wtmp,           \* slice value read by append before it is stored back
    dirs,           \* file system: existing directories
    files,          \* file system: set of [path, payload]
    exited,         \* the process has exited (log.Fatal)
    worked,         \* history: worked[c][j] = number of work() executions for job j
    attempts,       \* history: attempts[c][j] = the qrcode.WriteFile calls of job j
    stats,          \* history: results of fileSize per invocation
    diag,           \* history: "file: %s, file size: %d" lines printed
    printed,        \* history: failure list printed by processQRCode
    linesLeft       \* lines the UI can still pass in

vars == << pc, args, ret, mu, g, fileContentArr, jobChans, closed, wg,
           errGenQRCode, i, wpc, wjob, wpath, wtmp, dirs, files, exited,
           worked, attempts, stats, diag, printed, linesLeft >>

NoArgs == [pinCodeList |-> EmptyStr, folder |-> EmptyStr, fileExt |-> EmptyStr]
NoRet == [result |-> EmptyStr, err |-> "none"]
NoJob == [index |-> -1, fileContent |-> EmptyStr]

Init ==
    /\ pc = [c \in Calls |-> "idle"]
    /\ args = [c \in Calls |-> NoArgs]
    /\ ret = [c \in Calls |-> NoRet]
    /\ mu = 0
    /\ g = NoArgs
    /\ fileContentArr = [c \in Calls |-> << >>]
    /\ jobChans = [c \in Calls |-> << >>]
    /\ closed = [c \in Calls |-> FALSE]
    /\ wg = [c \in Calls |-> 0]
    /\ errGenQRCode = [c \in Calls |-> << >>]
    /\ i = [c \in Calls |-> 0]
    /\ wpc = [c \in Calls |-> [w \in Workers |-> "off"]]
    /\ wjob = [c \in Calls |-> [w \in Workers |-> NoJob]]
    /\ wpath = [c \in Calls |-> [w \in Workers |-> EmptyStr]]
    /\ wtmp = [c \in Calls |-> [w \in Workers |-> << >>]]
    /\ dirs = {}
    /\ files = {}
    /\ exited = FALSE
    /\ worked = [c \in Calls |-> << >>]
    /\ attempts = [c \in Calls |-> << >>]
    /\ stats = [c \in Calls |-> {}]
    /\ diag = [c \in Calls |-> {}]
    /\ printed = [c \in Calls |-> << >>]
    /\ linesLeft = MaxLines

\* ------------------------------------------------------- generatorQRCode
\* The UI calls the bound function; lorca runs each call in its own goroutine.
\* Invocations are numbered in the order they are made.
Invoke(c) ==
    /\ ~exited
    /\ pc[c] = "idle"
    /\ \A d \in Calls : d < c => pc[d] # "idle"
    /\ \E l \in PinCodeLists, f \in Folders, e \in FileExts :
          /\ Cost(l) <= linesLeft
          /\ linesLeft' = linesLeft - Cost(l)
          /\ args' = [args EXCEPT ![c] = [pinCodeList |-> l, folder |-> f, fileExt |-> e]]
    /\ pc' = [pc EXCEPT ![c] = "lock"]
    /\ UNCHANGED << ret, mu, g, fileContentArr, jobChans, closed, wg,
                    errGenQRCode, i, wpc, wjob, wpath, wtmp, dirs, files,
                    exited, worked, attempts, stats, diag, printed >>

\* Mutant of CanLock: Lock() that never blocks.
CanLockAlways(c) == TRUE

\* g.Lock() returns only when the mutex is free.
CanLock(c) == mu = 0

Lock(c) ==
    /\ ~exited
    /\ pc[c] = "lock"
    /\ CanLock(c)
    /\ mu' = c
    /\ pc' = [pc EXCEPT ![c] = "validate"]
    /\ UNCHANGED << args, ret, g, fileContentArr, jobChans, closed, wg,
                    errGenQRCode, i, wpc, wjob, wpath, wtmp, dirs, files,
                    exited, worked, attempts, stats, diag, printed, linesLeft >>

\* Mutant of InputError: the folder check is missing.
InputErrorNoFolder(a) ==
    IF Len(a.pinCodeList) = 0 THEN "flags readfile is empty"
    ELSE IF Len(a.fileExt) = 0 THEN "flags fileExt is empty"
    ELSE "nil"

\* The three len(...) == 0 checks, in order; "nil" when all pass.
InputError(a) ==
    IF Len(a.pinCodeList) = 0 THEN "flags readfile is empty"
    ELSE IF Len(a.folder) = 0 THEN "flags folder is empty"
    ELSE IF Len(a.fileExt) = 0 THEN "flags fileExt is empty"
    ELSE "nil"

\* A failed check returns ("", err); the deferred g.Unlock() runs on return.
Reject(c) ==
    /\ ~exited
    /\ pc[c] = "validate"
    /\ InputError(args[c]) # "nil"
    /\ ret' = [ret EXCEPT ![c] = [result |-> EmptyStr, err |-> InputError(args[c])]]
    /\ mu' = 0
    /\ pc' = [pc EXCEPT ![c] = "done"]
    /\ UNCHANGED << args, g, fileContentArr, jobChans, closed, wg,
                    errGenQRCode, i, wpc, wjob, wpath, wtmp, dirs, files,
                    exited, worked, attempts, stats, diag, printed, linesLeft >>

\* g.pinCodeList = pinCodeList; g.folder = folder; g.fileExt = fileExt
Accept(c) ==
    /\ ~exited
    /\ pc[c] = "validate"
    /\ InputError(args[c]) = "nil"
    /\ g' = args[c]
    /\ pc' = [pc EXCEPT ![c] = "start"]
    /\ UNCHANGED << args, ret, mu, fileContentArr, jobChans, closed, wg,
                    errGenQRCode, i, wpc, wjob, wpath, wtmp, dirs, files,
                    exited, worked, attempts, stats, diag, printed, linesLeft >>

\* ----------------------------------------------------------- processQRCode
\* Mutant of wgAdd: the barrier is one short of the job count.
wgAddShort(fileContentCount) == fileContentCount - 1

\* Number of completion signals wg.Wait() waits for: wg.Add(fileContentCount).
wgAdd(fileContentCount) == fileContentCount

\* os.MkdirAll(g.folder, os.ModePerm): its error is ignored; an existing
\* directory always succeeds, a new one may fail to be created.
MkdirAll(folder) == { dirs \cup { folder }, dirs }

\* Lines 121-134: split, errLog, MkdirAll, make(chan, count), wg.Add(count).
Start(c) ==
    /\ ~exited
    /\ pc[c] = "start"
    /\ LET arr == Split(g.pinCodeList, NL)
           fileContentCount == Len(arr)
       IN  /\ fileContentArr' = [fileContentArr EXCEPT ![c] = arr]
           /\ wg' = [wg EXCEPT ![c] = wgAdd(fileContentCount)]
           /\ worked' = [worked EXCEPT ![c] = [j \in 1..fileContentCount |-> 0]]
           /\ attempts' = [attempts EXCEPT ![c] = [j \in 1..fileContentCount |-> << >>]]
    /\ errGenQRCode' = [errGenQRCode EXCEPT ![c] = << >>]
    /\ dirs' \in MkdirAll(g.folder)
    /\ jobChans' = [jobChans EXCEPT ![c] = << >>]
    /\ closed' = [closed EXCEPT ![c] = FALSE]
    /\ i' = [i EXCEPT ![c] = 1]
    /\ pc' = [pc EXCEPT ![c] = "spawn"]
    /\ UNCHANGED << args, ret, mu, g, wpc, wjob, wpath, wtmp, files, exited,
                    stats, diag, printed, linesLeft >>

\* for i := 1; i <= runtime.NumCPU(); i++ { go func(i int) {...}(i) }
Spawn(c) ==
    /\ ~exited
    /\ pc[c] = "spawn"
    /\ IF i[c] <= NumCPU
       THEN /\ wpc' = [wpc EXCEPT ![c][i[c]] = "range"]
            /\ i' = [i EXCEPT ![c] = i[c] + 1]
            /\ pc' = pc
       ELSE /\ i' = [i EXCEPT ![c] = 0]
            /\ pc' = [pc EXCEPT ![c] = "enqueue"]
            /\ wpc' = wpc
    /\ UNCHANGED << args, ret, mu, g, fileContentArr, jobChans, closed, wg,
                    errGenQRCode, wjob, wpath, wtmp, dirs, files, exited,
                    worked, attempts, stats, diag, printed, linesLeft >>

\* jobChans <- jobChannel{index: i, fileContent: fileContentArr[i]}; the
\* channel's capacity is fileContentCount, so the send never blocks.
Enqueue(c) ==
    /\ ~exited
    /\ pc[c] = "enqueue"
    /\ i[c] < Len(fileContentArr[c])
    /\ Len(jobChans[c]) < Len(fileContentArr[c])
    /\ jobChans' = [jobChans EXCEPT ![c] =
                       Append(@, [index |-> i[c],
                                  fileContent |-> fileContentArr[c][i[c] + 1]])]
    /\ i' = [i EXCEPT ![c] = i[c] + 1]
    /\ UNCHANGED << pc, args, ret, mu, g, fileContentArr, closed, wg,
                    errGenQRCode, wpc, wjob, wpath, wtmp, dirs, files, exited,
                    worked, attempts, stats, diag, printed, linesLeft >>

\* close(jobChans)
CloseChan(c) ==
    /\ ~exited
    /\ pc[c] = "enqueue"
    /\ i[c] >= Len(fileContentArr[c])
    /\ closed' = [closed EXCEPT ![c] = TRUE]
    /\ pc' = [pc EXCEPT ![c] = "wait"]
    /\ UNCHANGED << args, ret, mu, g, fileContentArr, jobChans, wg,
                    errGenQRCode, i, wpc, wjob, wpath, wtmp, dirs, files,
                    exited, worked, attempts, stats, diag, printed, linesLeft >>

\* wg.Wait() returns when the counter is zero.
Wait(c) ==
    /\ ~exited
    /\ pc[c] = "wait"
    /\ wg[c] = 0
    /\ pc' = [pc EXCEPT ![c] = "report"]
    /\ UNCHANGED << args, ret, mu, g, fileContentArr, jobChans, closed, wg,
                    errGenQRCode, i, wpc, wjob, wpath, wtmp, dirs, files,
                    exited, worked, attempts, stats, diag, printed, linesLeft >>

\* Mutant of Summary: the text says so when the run had failures.
SummaryWithFailures(folder) ==
    << "done, see folder [" >> \o folder \o << "] and check the files" >>
    \o (IF \E c \in Calls : mu = c /\ Len(errGenQRCode[c]) > 0
        THEN << "some records failed" >>
        ELSE << >>)

\* fmt.Sprintf of the result text around g.folder.
Summary(folder) == << "done, see folder [" >> \o folder \o << "] and check the files" >>

\* Lines 158-163 and 116-117: print the failure list when it is not empty,
\* return (result, nil); the deferred g.Unlock() runs on return.
Report(c) ==
    /\ ~exited
    /\ pc[c] = "report"
    /\ printed' = [printed EXCEPT ![c] =
                      IF Len(errGenQRCode[c]) > 0 THEN errGenQRCode[c] ELSE << >>]
    /\ ret' = [ret EXCEPT ![c] = [result |-> Summary(g.folder), err |-> "nil"]]
    /\ mu' = 0
    /\ pc' = [pc EXCEPT ![c] = "done"]
    /\ UNCHANGED << args, g, fileContentArr, jobChans, closed, wg,
                    errGenQRCode, i, wpc, wjob, wpath, wtmp, dirs, files,
                    exited, worked, attempts, stats, diag, linesLeft >>

\* ------------------------------------------------------------------ workers
\* Mutant of RecvRest: the job received stays in the channel.
RecvKeep(ch) == ch

\* What a receive leaves in the channel: the job taken is removed.
RecvRest(ch) == Tail(ch)

\* for job := range jobChans: take the next job, or leave the loop when the
\* channel is closed and drained; blocks otherwise.
Recv(c, w) ==
    /\ ~exited
    /\ wpc[c][w] = "range"
    /\ Len(jobChans[c]) > 0
    /\ wjob' = [wjob EXCEPT ![c][w] = Head(jobChans[c])]
    /\ jobChans' = [jobChans EXCEPT ![c] = RecvRest(jobChans[c])]
    /\ wpc' = [wpc EXCEPT ![c][w] = "work"]
    /\ UNCHANGED << pc, args, ret, mu, g, fileContentArr, closed, wg,
                    errGenQRCode, i, wpath, wtmp, dirs, files, exited,
                    worked, attempts, stats, diag, printed, linesLeft >>

RangeEnd(c, w) ==
    /\ ~exited
    /\ wpc[c][w] = "range"
    /\ Len(jobChans[c]) = 0
    /\ closed[c]
    /\ wpc' = [wpc EXCEPT ![c][w] = "exit"]
    /\ UNCHANGED << pc, args, ret, mu, g, fileContentArr, jobChans, closed, wg,
                    errGenQRCode, i, wjob, wpath, wtmp, dirs, files, exited,
                    worked, attempts, stats, diag, printed, linesLeft >>

\* Mutant of pinCodeInfo: the two tokens are taken in the wrong order.
pinCodeInfoSwapped(valueArr) ==
    IF Len(valueArr) = 1
    THEN [valueName |-> valueArr[1], valuePinCode |-> valueArr[1], err |-> "nil"]
    ELSE IF Len(valueArr) = 2
    THEN [valueName |-> valueArr[2], valuePinCode |-> valueArr[1], err |-> "nil"]
    ELSE [valueName |-> EmptyStr, valuePinCode |-> EmptyStr,
          err |-> "value format is error"]

\* pinCodeInfo(valueArr): one token is name and payload, two tokens are
\* name and payload, anything else is "value format is error".
pinCodeInfo(valueArr) ==
    IF Len(valueArr) = 1
    THEN [valueName |-> valueArr[1], valuePinCode |-> valueArr[1], err |-> "nil"]
    ELSE IF Len(valueArr) = 2
    THEN [valueName |-> valueArr[1], valuePinCode |-> valueArr[2], err |-> "nil"]
    ELSE [valueName |-> EmptyStr, valuePinCode |-> EmptyStr,
          err |-> "value format is error"]

\* Whether work() reaches qrcode.WriteFile for this line (lines 191-199).
Encodes(fileContent) ==
    /\ Len(fileContent) # 0
    /\ pinCodeInfo(Split(TrimSpace(fileContent), SP)).err = "nil"

\* Mutant of PingCode: the name is left out of the path.
PingCodeNoName(folder, valueName, fileExt) == folder \o << "/" >> \o fileExt

\* pingCode := g.folder + "/" + valueName + g.fileExt
PingCode(folder, valueName, fileExt) == folder \o << "/" >> \o valueName \o fileExt

\* qrcode.WriteFile: an external encoder that succeeds or fails; it cannot
\* create the file when the folder does not exist.
WriteFileResults(folder) == IF folder \in dirs THEN { TRUE, FALSE } ELSE { FALSE }

\* work(), lines 191-209: returns at once for an empty line or a malformed
\* one, else encodes; a failed encode goes on to the append of line 207.
Work(c, w) ==
    /\ ~exited
    /\ wpc[c][w] = "work"
    /\ LET job == wjob[c][w]
           j == job.index + 1
           info == pinCodeInfo(Split(TrimSpace(job.fileContent), SP))
           pingCode == PingCode(g.folder, info.valueName, g.fileExt)
       IN  /\ worked' = [worked EXCEPT ![c][j] = @ + 1]
           /\ IF ~Encodes(job.fileContent)
              THEN /\ wpc' = [wpc EXCEPT ![c][w] = "signal"]
                   /\ UNCHANGED << wpath, files, attempts >>
              ELSE \E ok \in WriteFileResults(g.folder) :
                   /\ attempts' = [attempts EXCEPT ![c][j] =
                          Append(@, [payload |-> info.valuePinCode,
                                     path |-> pingCode,
                                     size |-> PixelSize,
                                     ok |-> ok])]
                   /\ wpath' = [wpath EXCEPT ![c][w] = pingCode]
                   /\ files' = IF ok
                               THEN { f \in files : f.path # pingCode }
                                    \cup { [path |-> pingCode,
                                            payload |-> info.valuePinCode] }
                               ELSE files
                   /\ wpc' = [wpc EXCEPT ![c][w] = IF ok THEN "stat" ELSE "append"]
    /\ UNCHANGED << pc, args, ret, mu, g, fileContentArr, jobChans, closed, wg,
                    errGenQRCode, i, wjob, wtmp, dirs, exited, stats, diag,
                    printed, linesLeft >>

\* os.Stat of the file just written: the file system may report an error,
\* an empty file or a file with content.
StatResults ==
    { [err |-> TRUE, size |-> 0], [err |-> FALSE, size |-> 0],
      [err |-> FALSE, size |-> 1] }

\* fileSize(pingCode), lines 166-173, and lines 211-219 of work(): a Stat
\* error reaches log.Fatal(err), which exits the process; otherwise the
\* size is printed.
fileSize(c, w) ==
    /\ ~exited
    /\ wpc[c][w] = "stat"
    /\ \E r \in StatResults :
          /\ stats' = [stats EXCEPT ![c] =
                          @ \cup { [index |-> wjob[c][w].index, path |-> wpath[c][w],
                                    err |-> r.err, size |-> r.size] }]
          /\ IF r.err
             THEN /\ exited' = TRUE
                  /\ UNCHANGED << wpc, diag >>
             ELSE /\ diag' = [diag EXCEPT ![c] =
                                 @ \cup { [path |-> wpath[c][w], size |-> r.size] }]
                  /\ wpc' = [wpc EXCEPT ![c][w] = "signal"]
                  /\ UNCHANGED exited
    /\ UNCHANGED << pc, args, ret, mu, g, fileContentArr, jobChans, closed, wg,
                    errGenQRCode, i, wjob, wpath, wtmp, dirs, files, worked,
                    attempts, printed, linesLeft >>

\* errGenQRCode.errGenQRCode = append(errGenQRCode.errGenQRCode, pingCode):
\* no lock is held, so the read of the slice and the store of the grown
\* slice are two steps other workers can run between.
AppendRead(c, w) ==
    /\ ~exited
    /\ wpc[c][w] = "append"
    /\ wtmp' = [wtmp EXCEPT ![c][w] = errGenQRCode[c]]
    /\ wpc' = [wpc EXCEPT ![c][w] = "store"]
    /\ UNCHANGED << pc, args, ret, mu, g, fileContentArr, jobChans, closed, wg,
                    errGenQRCode, i, wjob, wpath, dirs, files, exited, worked,
                    attempts, stats, diag, printed, linesLeft >>

AppendStore(c, w) ==
    /\ ~exited
    /\ wpc[c][w] = "store"
    /\ errGenQRCode' = [errGenQRCode EXCEPT ![c] = Append(wtmp[c][w], wpath[c][w])]
    /\ wtmp' = [wtmp EXCEPT ![c][w] = << >>]
    /\ wpc' = [wpc EXCEPT ![c][w] = "signal"]
    /\ UNCHANGED << pc, args, ret, mu, g, fileContentArr, jobChans, closed, wg,
                    i, wjob, wpath, dirs, files, exited, worked, attempts,
                    stats, diag, printed, linesLeft >>

\* wg.Done() after work() has returned, then back to the range loop.
Done(c, w) ==
    /\ ~exited
    /\ wpc[c][w] = "signal"
    /\ wg' = [wg EXCEPT ![c] = wg[c] - 1]
    /\ wjob' = [wjob EXCEPT ![c][w] = NoJob]
    /\ wpath' = [wpath EXCEPT ![c][w] = EmptyStr]
    /\ wpc' = [wpc EXCEPT ![c][w] = "range"]
    /\ UNCHANGED << pc, args, ret, mu, g, fileContentArr, jobChans, closed,
                    errGenQRCode, i, wtmp, dirs, files, exited, worked,
                    attempts, stats, diag, printed, linesLeft >>

\* ------------------------------------------------------------ specification
Next ==
    \/ \E c \in Calls : Invoke(c)
    \/ \E c \in Calls : Lock(c)
    \/ \E c \in Calls : Reject(c)
    \/ \E c \in Calls : Accept(c)
    \/ \E c \in Calls : Start(c)
    \/ \E c \in Calls : Spawn(c)
    \/ \E c \in Calls : Enqueue(c)
    \/ \E c \in Calls : CloseChan(c)
    \/ \E c \in Calls : Wait(c)
    \/ \E c \in Calls : Report(c)
    \/ \E c \in Calls, w \in Workers : Recv(c, w)
    \/ \E c \in Calls, w \in Workers : RangeEnd(c, w)
    \/ \E c \in Calls, w \in Workers : Work(c, w)
    \/ \E c \in Calls, w \in Workers : fileSize(c, w)
    \/ \E c \in Calls, w \in Workers : AppendRead(c, w)
    \/ \E c \in Calls, w \in Workers : AppendStore(c, w)
    \/ \E c \in Calls, w \in Workers : Done(c, w)

Spec == Init /\ [][Next]_vars
\* Each goroutine that can take a step eventually takes one (Go scheduler).
CallStep(c) ==
    \/ Lock(c) \/ Reject(c) \/ Accept(c) \/ Start(c) \/ Spawn(c)
    \/ Enqueue(c) \/ CloseChan(c) \/ Wait(c) \/ Report(c)

WorkerStep(c, w) ==
    \/ Recv(c, w) \/ RangeEnd(c, w) \/ Work(c, w) \/ fileSize(c, w)
    \/ AppendRead(c, w) \/ AppendStore(c, w) \/ Done(c, w)

FairSpec ==
    /\ Spec
    /\ \A c \in Calls : WF_vars(CallStep(c))
    /\ \A c \in Calls : \A w \in Workers : WF_vars(WorkerStep(c, w))

\* ------------------------------------------------------------------ claims
\* One of the three arguments is the empty string.
AnyEmpty(a) == Len(a.pinCodeList) = 0 \/ Len(a.folder) = 0 \/ Len(a.fileExt) = 0
\* Invocation c has been made with three non-empty arguments.
Accepted(c) == pc[c] # "idle" /\ ~AnyEmpty(args[c])
\* The completion wait of invocation c has been released.
Released(c) == Accepted(c) /\ pc[c] \in { "report", "done" }
\* Invocation c is between lock acquisition and return.
InFlight(c) == pc[c] \in { "validate", "start", "spawn", "enqueue", "wait", "report" }
\* Worker w of invocation c holds a job it has not yet signalled as done.
Holding(c, w) == wpc[c][w] \in { "work", "stat", "append", "store", "signal" }
\* Jobs of invocation c whose work() has returned and whose wg.Done() is made.
Finished(c) ==
    { j \in DOMAIN worked[c] :
        /\ worked[c][j] >= 1
        /\ \A w \in Workers : ~(Holding(c, w) /\ wjob[c][w].index + 1 = j) }
Occ(seq, x) == Cardinality({ k \in 1..Len(seq) : seq[k] = x })

\* C1: every enqueued job is received and processed by exactly one worker:
\* no job is processed twice, no two workers hold the same job, and when the
\* completion wait is released work() has run exactly once per line, M in all.
C1_ExactlyOnce ==
    \A c \in Calls :
        /\ \A j \in DOMAIN worked[c] : worked[c][j] <= 1
        /\ \A w1, w2 \in Workers :
              (w1 # w2 /\ Holding(c, w1) /\ Holding(c, w2))
                 => wjob[c][w1].index # wjob[c][w2].index
        /\ Released(c) =>
              /\ Len(worked[c]) = Len(Split(args[c].pinCodeList, NL))
              /\ \A j \in DOMAIN worked[c] : worked[c][j] = 1

\* C1 witness: a run of two lines on more than one worker has been released.
C1_Witness ==
    \E c \in Calls :
        /\ Released(c)
        /\ NumCPU > 1
        /\ Len(worked[c]) >= 2
        /\ \A j \in DOMAIN worked[c] : worked[c][j] = 1

\* C2: no two workers of one run are at the same time between the read and
\* the store of the append to errGenQRCode.
C2_AppendMutex ==
    \A c \in Calls : \A w1, w2 \in Workers :
        w1 # w2 => ~(wpc[c][w1] = "store" /\ wpc[c][w2] = "store")

\* Records of invocation c that failed with destination path p: a failed
\* encode, or a failed stat of the written file.
FailedWith(c, p) ==
    Cardinality({ j \in DOMAIN attempts[c] :
                    \E k \in 1..Len(attempts[c][j]) :
                        attempts[c][j][k].path = p /\ ~attempts[c][j][k].ok })
    + Cardinality({ s \in stats[c] : s.err /\ s.path = p })

PathsOf(c) ==
    { errGenQRCode[c][k] : k \in 1..Len(errGenQRCode[c]) }
    \cup UNION { { attempts[c][j][k].path : k \in 1..Len(attempts[c][j]) } :
                 j \in DOMAIN attempts[c] }

\* C3: when a run completes, errGenQRCode holds exactly one entry per failed
\* record and nothing else, in some order.
C3_ErrorLogExact ==
    \A c \in Calls :
        Released(c) =>
            \A p \in PathsOf(c) : Occ(errGenQRCode[c], p) = FailedWith(c, p)

\* C4: a failed stat of a written file is not fatal: the process keeps
\* running, and once the worker has finished that job the path is in
\* errGenQRCode.
C4_StatFailureContained ==
    \A c \in Calls : \A s \in stats[c] :
        s.err =>
            /\ ~exited
            /\ (s.index + 1) \in Finished(c) => Occ(errGenQRCode[c], s.path) >= 1

\* C5: at most one invocation is between lock acquisition and return, it is
\* the holder of the mutex, and while it runs the generator's fields are the
\* arguments of that invocation.
C5_OneRunInFlight ==
    /\ \A c, d \in Calls : (c # d /\ InFlight(c)) => ~InFlight(d)
    /\ \A c \in Calls : InFlight(c) => mu = c
    /\ \A c \in Calls :
          pc[c] \in { "start", "spawn", "enqueue", "wait", "report" } => g = args[c]

\* C5 witness: a second invocation waits for the lock while the first one
\* runs its dispatcher.
C5_Witness ==
    \E c, d \in Calls :
        /\ c # d
        /\ pc[c] \in { "enqueue", "wait" }
        /\ pc[d] = "lock"

\* C6: the barrier is set to the number of lines before any worker starts,
\* the counter is always that number less the jobs finished (so never below
\* zero), and once the wait is released every job has been fully processed.
C6_BarrierExact ==
    \A c \in Calls :
        /\ (\E w \in Workers : wpc[c][w] # "off") =>
              pc[c] \in { "spawn", "enqueue", "wait", "report", "done" }
        /\ pc[c] \in { "spawn", "enqueue", "wait", "report", "done" } /\ Accepted(c) =>
              /\ wg[c] = Len(fileContentArr[c]) - Cardinality(Finished(c))
              /\ wg[c] >= 0
              /\ Len(jobChans[c]) <= Len(fileContentArr[c])
        /\ Released(c) =>
              /\ Finished(c) = 1..Len(fileContentArr[c])
              /\ jobChans[c] = << >>
              /\ \A w \in Workers : ~Holding(c, w)

\* C6 witness: the wait of a two-line run has been released.
C6_Witness ==
    \E c \in Calls :
        /\ pc[c] = "report"
        /\ Len(fileContentArr[c]) = 2
        /\ wg[c] = 0

\* C7: under fair scheduling every invocation with three non-empty
\* arguments eventually returns.
C7_EveryRunReturns ==
    \A c \in Calls : (pc[c] = "start") ~> (pc[c] = "done")

\* C8: an invocation with an empty argument returns the input error before
\* any work: nothing is split, created, enqueued, started, encoded or written.
C8_InvalidInputNoWork ==
    /\ \A c \in Calls :
          (pc[c] # "idle" /\ AnyEmpty(args[c])) =>
              /\ pc[c] \in { "lock", "validate", "done" }
              /\ pc[c] = "done" =>
                    /\ ret[c].result = EmptyStr
                    /\ ret[c].err \in { "flags readfile is empty",
                                        "flags folder is empty",
                                        "flags fileExt is empty" }
              /\ fileContentArr[c] = << >>
              /\ jobChans[c] = << >>
              /\ wg[c] = 0
              /\ \A w \in Workers : wpc[c][w] = "off"
              /\ worked[c] = << >>
              /\ attempts[c] = << >>
              /\ stats[c] = {}
    /\ (\A c \in Calls : pc[c] # "idle" => AnyEmpty(args[c])) =>
          dirs = {} /\ files = {}

\* C8 witness: an invocation with an empty folder has returned.
C8_Witness ==
    \E c \in Calls :
        /\ pc[c] = "done"
        /\ Len(args[c].pinCodeList) > 0
        /\ Len(args[c].folder) = 0
        /\ ret[c].err = "flags folder is empty"

\* C9: after a successful encode, a failed stat or a non-positive size puts
\* the path in errGenQRCode once the job is finished, and the size
\* diagnostic is printed only for a positive size.
C9_ValidationReported ==
    \A c \in Calls :
        /\ \A d \in diag[c] : d.size > 0
        /\ \A s \in stats[c] :
              ((s.err \/ s.size <= 0) /\ (s.index + 1) \in Finished(c))
                 => Occ(errGenQRCode[c], s.path) >= 1

\* A line that is a record as the specification reads it: not blank after
\* trimming, and one or two tokens.
WellFormedNonBlank(line) ==
    /\ Len(TrimSpace(line)) > 0
    /\ Len(Split(TrimSpace(line), SP)) \in { 1, 2 }

\* C10: in a completed run every well-formed non-blank line has exactly one
\* encode attempt and every blank or malformed line has none.
C10_EncodeCount ==
    \A c \in Calls :
        Released(c) =>
            \A j \in DOMAIN attempts[c] :
                Len(attempts[c][j]) =
                    IF WellFormedNonBlank(fileContentArr[c][j]) THEN 1 ELSE 0

\* The tokens of a line: trimmed, then split on single spaces.
Tokens(line) == Split(TrimSpace(line), SP)
\* Destination of a record of invocation c: folder + "/" + name + extension
\* of the arguments of c.
DestOf(c, name) == args[c].folder \o << "/" >> \o name \o args[c].fileExt

\* C11: a non-empty line is classified by its token count: one token is name
\* and payload, two tokens are name then payload, and any other count gives
\* no record, no encode attempt and so no output file.
C11_Classification ==
    \A c \in Calls : \A j \in DOMAIN attempts[c] :
        LET line == fileContentArr[c][j]
            t == Tokens(line)
            att == attempts[c][j]
        IN  Len(line) > 0 =>
               /\ Len(t) = 1 =>
                     \A k \in 1..Len(att) :
                         att[k].payload = t[1] /\ att[k].path = DestOf(c, t[1])
               /\ Len(t) = 2 =>
                     \A k \in 1..Len(att) :
                         att[k].payload = t[2] /\ att[k].path = DestOf(c, t[1])
               /\ Len(t) \notin { 1, 2 } => att = << >>
               /\ Released(c) => Len(att) = IF Len(t) \in { 1, 2 } THEN 1 ELSE 0

\* C11 witness: a completed run with a two-token line that gave a record and
\* a three-token line that gave none.
C11_Witness ==
    \E c \in Calls : \E j, k \in DOMAIN attempts[c] :
        /\ Released(c)
        /\ Len(Tokens(fileContentArr[c][j])) = 2
        /\ Len(attempts[c][j]) = 1
        /\ Len(Tokens(fileContentArr[c][k])) = 3
        /\ attempts[c][k] = << >>

\* C12: every encode attempt of a run is made with the payload of its line,
\* at most once per line, at the fixed pixel size, and to the path built from
\* the folder and extension of the invocation that started the run.
C12_AttemptArgs ==
    \A c \in Calls : \A j \in DOMAIN attempts[c] :
        /\ Len(attempts[c][j]) <= 1
        /\ \A k \in 1..Len(attempts[c][j]) :
              LET t == Tokens(fileContentArr[c][j])
                  a == attempts[c][j][k]
              IN  /\ a.payload = t[Len(t)]
                  /\ a.path = DestOf(c, t[1])
                  /\ a.size = PixelSize

\* C12 witness: two invocations with different folders have each made an
\* encode attempt.
C12_Witness ==
    \E c, d \in Calls :
        /\ args[c].folder # args[d].folder
        /\ \E j \in DOMAIN attempts[c] : Len(attempts[c][j]) = 1
        /\ \E j \in DOMAIN attempts[d] : Len(attempts[d][j]) = 1

\* Line j of invocation c had a successful encode.
Encoded(c, j) ==
    \E k \in 1..Len(attempts[c][j]) : attempts[c][j][k].ok
\* The lines of invocation c, in input order, whose successful encode went
\* to the same destination as line j.
SameDest(c, j) ==
    { m \in DOMAIN attempts[c] :
        /\ Encoded(c, m)
        /\ DestOf(c, Tokens(fileContentArr[c][m])[1])
             = DestOf(c, Tokens(fileContentArr[c][j])[1]) }
\* The last of them in input order: the one whose payload a one-by-one run
\* in input order leaves in the file.
LastOf(S) == CHOOSE m \in S : \A n \in S : n <= m

\* C13: each record's file is independent of the others: when the run's jobs
\* are all done, every file written holds what processing the lines one by
\* one in input order (one of the interleavings) leaves in it.
C13_Independent ==
    \A c \in Calls :
        pc[c] = "report" =>
            \A j \in DOMAIN attempts[c] :
                Encoded(c, j) =>
                    LET m == LastOf(SameDest(c, j))
                        t == Tokens(fileContentArr[c][m])
                    IN  [path |-> DestOf(c, t[1]), payload |-> t[Len(t)]] \in files

\* No two record lines of invocation c have the same name.
DistinctNames(c) ==
    \A j, m \in DOMAIN fileContentArr[c] :
        (/\ j # m
         /\ Len(fileContentArr[c][j]) > 0
         /\ Len(fileContentArr[c][m]) > 0
         /\ Len(Tokens(fileContentArr[c][j])) \in { 1, 2 }
         /\ Len(Tokens(fileContentArr[c][m])) \in { 1, 2 })
            => Tokens(fileContentArr[c][j])[1] # Tokens(fileContentArr[c][m])[1]

\* C13 amended: when no two records of the input have the same name, every
\* line whose encode succeeded has its own file with its own payload when
\* the run's jobs are all done, whatever the interleaving.
C13_IndependentDistinctNames ==
    \A c \in Calls :
        (pc[c] = "report" /\ DistinctNames(c)) =>
            \A j \in DOMAIN attempts[c] :
                Encoded(c, j) =>
                    LET t == Tokens(fileContentArr[c][j])
                    IN  [path |-> DestOf(c, t[1]), payload |-> t[Len(t)]] \in files

\* C13 witness: a run of two records with different names, both encoded, on
\* more than one worker.
C13_Witness ==
    \E c \in Calls : \E j, m \in DOMAIN attempts[c] :
        /\ pc[c] = "report"
        /\ DistinctNames(c)
        /\ j # m
        /\ Encoded(c, j)
        /\ Encoded(c, m)
        /\ NumCPU > 1

\* Whether sub occurs in s.
Contains(s, sub) ==
    \E n \in 0..(Len(s) - Len(sub)) : SubSeq(s, n + 1, n + Len(sub)) = sub

\* C14: a returned error is always the input error; once the three
\* arguments are non-empty the call returns a nil error and a summary that
\* contains the folder, the same for the same folder whether or not records
\* failed.
C14_ReturnValue ==
    /\ \A c \in Calls :
          pc[c] = "done" =>
              /\ (ret[c].err # "nil") <=> AnyEmpty(args[c])
              /\ ~AnyEmpty(args[c]) =>
                    /\ Len(ret[c].result) > 0
                    /\ Contains(ret[c].result, args[c].folder)
    /\ \A c, d \in Calls :
          (/\ pc[c] = "done"
           /\ pc[d] = "done"
           /\ ~AnyEmpty(args[c])
           /\ ~AnyEmpty(args[d])
           /\ args[c].folder = args[d].folder)
             => ret[c] = ret[d]

\* C14 witness: two runs into the same folder have returned, one with
\* failed records and one without.
C14_Witness ==
    \E c, d \in Calls :
        /\ pc[c] = "done"
        /\ pc[d] = "done"
        /\ ~AnyEmpty(args[c])
        /\ ~AnyEmpty(args[d])
        /\ args[c].folder = args[d].folder
        /\ Len(errGenQRCode[c]) > 0
        /\ Len(errGenQRCode[d]) = 0
        /\ ret[c] = ret[d]

\* C15: the lock is free whenever no invocation is between acquisition and
\* return, and under fair scheduling an invocation waiting for the lock
\* eventually gets past it.
C15_LockReleased ==
    /\ []((\A c \in Calls : ~InFlight(c)) => mu = 0)
    /\ \A c \in Calls : (pc[c] = "lock") ~> (pc[c] # "lock")

\* C16: when an invocation that ran the dispatcher has returned, every
\* worker goroutine it started has terminated.
C16_WorkersJoined ==
    \A c \in Calls :
        (pc[c] = "done" /\ ~AnyEmpty(args[c])) =>
            \A w \in Workers : wpc[c][w] = "exit"

\* C16 amended: when an invocation that ran the dispatcher has returned,
\* every worker it started has finished all its jobs and is terminated or
\* at the receive on the closed, drained channel, which it can only leave
\* by terminating.
C16_WorkersDrained ==
    \A c \in Calls :
        (pc[c] = "done" /\ ~AnyEmpty(args[c])) =>
            /\ closed[c]
            /\ jobChans[c] = << >>
            /\ \A w \in Workers :
                  /\ wpc[c][w] \in { "range", "exit" }
                  /\ wjob[c][w] = NoJob

\* C16 witness: an invocation has returned while one of its workers has not
\* yet left the range loop.
C16_Witness ==
    \E c \in Calls : \E w \in Workers :
        /\ pc[c] = "done"
        /\ ~AnyEmpty(args[c])
        /\ wpc[c][w] = "range"

\* The encode attempts of invocation c.
AttemptsOf(c) ==
    UNION { { attempts[c][j][k] : k \in 1..Len(attempts[c][j]) } :
            j \in DOMAIN attempts[c] }
\* The output files of invocation c, by path: its successful encodes.
OutputNames(c) == { a.path : a \in { b \in AttemptsOf(c) : b.ok } }
\* The encoder behaved deterministically over the two runs: the same payload
\* to the same path had the same outcome.
SameEncoder(c, d) ==
    \A a \in AttemptsOf(c) : \A b \in AttemptsOf(d) :
        (a.payload = b.payload /\ a.path = b.path) => a.ok = b.ok

\* C17: two invocations with identical arguments that have both returned,
\* with an encoder that behaved the same in both, wrote the same set of
\* output file names.
C17_SameNames ==
    \A c, d \in Calls :
        (/\ c # d
         /\ pc[c] = "done"
         /\ pc[d] = "done"
         /\ ~AnyEmpty(args[c])
         /\ args[c] = args[d]
         /\ SameEncoder(c, d))
            => OutputNames(c) = OutputNames(d)

\* C17 witness: two invocations with identical arguments have both returned
\* after writing a file.
C17_Witness ==
    \E c, d \in Calls :
        /\ c # d
        /\ pc[c] = "done"
        /\ pc[d] = "done"
        /\ ~AnyEmpty(args[c])
        /\ args[c] = args[d]
        /\ SameEncoder(c, d)
        /\ OutputNames(c) # {}
        /\ OutputNames(c) = OutputNames(d)

\* C18: a line that is blank after trimming (empty or only whitespace) is a
\* no-op: it causes no encode attempt.
C18_BlankIsNoop ==
    \A c \in Calls : \A j \in DOMAIN attempts[c] :
        Len(TrimSpace(fileContentArr[c][j])) = 0 => attempts[c][j] = << >>

\* C19: when the output folder could not be created the run still makes one
\* job per line, works each of them before the wait is released, returns
\* the summary with a nil error, and every record whose encode failed has
\* its path in errGenQRCode.
C19_MkdirFailureNotFatal ==
    \A c \in Calls :
        (Released(c) /\ args[c].folder \notin dirs) =>
            /\ Len(worked[c]) = Len(Split(args[c].pinCodeList, NL))
            /\ \A j \in DOMAIN worked[c] : worked[c][j] = 1
            /\ pc[c] = "done" => (ret[c].err = "nil" /\ Len(ret[c].result) > 0)
            /\ \A j \in DOMAIN attempts[c] :
                  WellFormedNonBlank(fileContentArr[c][j]) =>
                      \A k \in 1..Len(attempts[c][j]) :
                          ~attempts[c][j][k].ok =>
                              Occ(errGenQRCode[c], attempts[c][j][k].path) >= 1

\* C20: from the moment the completion wait is released no worker of the
\* run is in an append or holds a job, no job is left to receive or to
\* enqueue, and what processQRCode read and printed is the final content of
\* errGenQRCode.
C20_ReadAfterWrites ==
    \A c \in Calls :
        Released(c) =>
            /\ \A w \in Workers : wpc[c][w] \notin { "work", "stat", "append", "store", "signal" }
            /\ \A w \in Workers : wtmp[c][w] = << >>
            /\ jobChans[c] = << >>
            /\ i[c] = Len(fileContentArr[c])
            /\ pc[c] = "done" => printed[c] = errGenQRCode[c]

\* C20 witness: processQRCode is about to read an errGenQRCode that workers
\* have appended to.
C20_Witness ==
    \E c \in Calls :
        /\ pc[c] = "report"
        /\ Len(errGenQRCode[c]) >= 1
        /\ \E w \in Workers : wpc[c][w] = "range"
====
